---- MODULE Spec2Model ----
(***************************************************************************)
(* Prescription lifecycle and dispensation engine of the MediChain portal: *)
(* PrescriptionService (module-level store mockPrescriptions, the catalog  *)
(* medicines) on top of Web3Service (wallet state, token map, direct       *)
(* ledger path with backend fallback).                                     *)
(*                                                                         *)
(* JavaScript runs each async function to its first await without          *)
(* interruption; another call can only run while a call waits for the      *)
(* ledger or the backend.  Each call is therefore one or two atomic steps: *)
(* the synchronous prefix, and the continuation after the ledger answer.   *)
(*                                                                         *)
(* Dates are integers (ticks); one calendar day is DayLen ticks.           *)
(***************************************************************************)
EXTENDS Integers, Sequences, FiniteSets, TLC

VARIABLES mockPrescriptions, medicines, tokenMap, web3State, now, calls,
          returned, started, ledgerTokens

vars == <<mockPrescriptions, medicines, tokenMap, web3State, now, calls,
          returned, started, ledgerTokens>>

(* ------------------------------ bounds -------------------------------- *)

\* ticks per calendar day
DayLen == 2
\* the clock stops advancing at MaxTime
MaxTime == 2
\* number of create / dispense calls started in one behaviour
MaxCalls == 3
\* number of createPrescription calls started in one behaviour
MaxCreates == 2

(* --------------------------- plain values ----------------------------- *)

\* an absent blockchainTxHash / ethereumAddress (undefined / null)
NoTx == "none"
NoAddress == "none"
TxHash == "0xTX"
WalletAddress == "0xWALLET"

\* the calendar day of a date (Date compared by date only)
DayOf(t) == t \div DayLen

\* module-level dates computed once at load time
today == 0
nextWeek == today + 7 * DayLen
lastWeek == today - 7 * DayLen
twoWeeksAgo == today - 14 * DayLen

\* export const medicines: id -> [quantity, available]
InitialMedicines ==
  [m \in 1..8 |->
     CASE m = 1 -> [quantity |-> 150, available |-> TRUE]
       [] m = 2 -> [quantity |-> 200, available |-> TRUE]
       [] m = 3 -> [quantity |-> 0,   available |-> FALSE]
       [] m = 4 -> [quantity |-> 80,  available |-> TRUE]
       [] m = 5 -> [quantity |-> 45,  available |-> TRUE]
       [] m = 6 -> [quantity |-> 120, available |-> TRUE]
       [] m = 7 -> [quantity |-> 60,  available |-> TRUE]
       [] OTHER -> [quantity |-> 0,   available |-> FALSE]]

\* let mockPrescriptions: the two pre-seeded prescriptions
SeedPrescriptions ==
  << [id |-> 1, tokenId |-> "RX-ABC12345", patientId |-> "2",
      medicines |-> << [medicine |-> 2, quantity |-> 30],
                       [medicine |-> 4, quantity |-> 30] >>,
      doseValidity |-> nextWeek, lockDates |-> {},
      status |-> "active", nextValidDose |-> <<today>>,
      dispensedDates |-> <<twoWeeksAgo>>,
      blockchainTxHash |-> NoTx, ethereumAddress |-> NoAddress],
     [id |-> 2, tokenId |-> "RX-DEF67890", patientId |-> "2",
      medicines |-> << [medicine |-> 1, quantity |-> 21] >>,
      doseValidity |-> lastWeek, lockDates |-> {},
      status |-> "dispensed", nextValidDose |-> <<>>,
      dispensedDates |-> <<lastWeek>>,
      blockchainTxHash |-> NoTx, ethereumAddress |-> NoAddress] >>

\* placeholder for "no prescription" in a call record
NoPrescription ==
  [id |-> 0, tokenId |-> "", patientId |-> "",
   medicines |-> <<>>, doseValidity |-> 0, lockDates |-> {},
   status |-> "none", nextValidDose |-> <<>>, dispensedDates |-> <<>>,
   blockchainTxHash |-> NoTx, ethereumAddress |-> NoAddress]

(* ------------------------------ inputs -------------------------------- *)

\* UI tokens generatePrescriptionToken can return (random, unchecked)
MintTokens == {"RX-AAAAAAAA", "RX-ABC12345"}

\* creation requests (medicine lines, doseValidity, lock dates).  The
\* first is the form's default: no lock date, doseValidity the moment the
\* form was opened; the stock of medicine 1 covers its line (150 - 30).
\* The second is valid to the end, has a lock date on the last day, and
\* its line takes the whole stock of medicine 5 (45 - 45)
Requests ==
  { [medicines |-> << [medicine |-> 1, quantity |-> 30] >>,
     doseValidity |-> today, lockDates |-> {}],
    [medicines |-> << [medicine |-> 5, quantity |-> 45] >>,
     doseValidity |-> MaxTime, lockDates |-> {MaxTime}] }

\* the form submitted without a medicine line
EmptyRequest ==
  [medicines |-> <<>>, doseValidity |-> today, lockDates |-> {}]

\* what the doctor submits
Submissions == Requests \cup {EmptyRequest}

\* token strings handed to dispensePrescription
DispenseTokens == MintTokens \cup {"RX-DEF67890", "RX-ZZZZZZZZ"}

\* what the direct ledger call can do: receipt with status 1, receipt with
\* another status, or an exception (revert, network error, rejection)
DirectOutcomes == {"ok", "status0", "throw"}

\* what the backend API can do: status 'ok', another status value,
\* a body without status, or an exception
BackendOutcomes == {"ok", "error", "nostatus", "throw"}

(* ------------------- Web3Service: ledger recorder --------------------- *)

\* dispensePrescriptionViaBackend: true when response.data.status is truthy
dispensePrescriptionViaBackend(b) == b \in {"ok", "error"}

\* Web3Service.dispensePrescription: no contract / not connected goes to
\* the backend; a thrown direct call falls back to the backend; a receipt
\* is success exactly when its status is 1
recordDispensation(conn, d, b) ==
  IF ~conn THEN dispensePrescriptionViaBackend(b)
  ELSE IF d = "throw" THEN dispensePrescriptionViaBackend(b)
  ELSE d = "ok"

\* createPrescriptionViaBackend: response.data.tx when status === 'ok',
\* null for everything else (errors are caught)
createPrescriptionViaBackend(b) == IF b = "ok" THEN TxHash ELSE NoTx

\* Web3Service.createPrescription: returns receipt.hash of a mined direct
\* call, else what the backend returns
recordCreation(conn, d, b) ==
  IF ~conn THEN createPrescriptionViaBackend(b)
  ELSE IF d = "throw" THEN createPrescriptionViaBackend(b)
  ELSE TxHash

\* a backend helper that lets its error through, as getPrescriptionViaBackend
\* does
ViaBackendRethrows(b) == b = "throw"

\* createPrescriptionViaBackend's catch returns null: nothing is thrown to
\* the caller
createPrescriptionViaBackendThrows(b) == FALSE

\* dispensePrescriptionViaBackend's catch returns false: nothing is thrown to
\* the caller
dispensePrescriptionViaBackendThrows(b) == FALSE

\* the paths Web3Service.createPrescription / dispensePrescription try, in
\* order: without contract or connection the backend helper, called inside
\* the try (so a helper that threw would be called again by the catch);
\* else the contract, and the backend helper from the catch when it throws
Attempts(conn, d, backendThrows) ==
  IF ~conn
  THEN IF backendThrows THEN <<"backend", "backend">> ELSE <<"backend">>
  ELSE IF d = "throw" THEN <<"direct", "backend">>
  ELSE <<"direct">>

createAttempts(conn, d, b) ==
  Attempts(conn, d, createPrescriptionViaBackendThrows(b))

dispenseAttempts(conn, d, b) ==
  Attempts(conn, d, dispensePrescriptionViaBackendThrows(b))

\* tokenMap.get(uiToken); 0 stands for undefined
getBlockchainToken(map, uiToken) == map[uiToken]

\* tokenMap.set(uiToken, blockchainToken)
storeTokenMapping(map, uiToken, blockchainToken) ==
  [map EXCEPT ![uiToken] = blockchainToken]

(* --------------------- PrescriptionService helpers -------------------- *)

\* String.prototype.trim on the token strings of the model
Trim(s) ==
  IF s \in {" RX-AAAAAAAA ", "RX-AAAAAAAA "} THEN "RX-AAAAAAAA" ELSE s

\* Array.prototype.findIndex(p => p.tokenId === token); 0 stands for -1
RECURSIVE FindFrom(_, _, _)
FindFrom(store, token, i) ==
  IF i > Len(store) THEN 0
  ELSE IF store[i].tokenId = token THEN i
  ELSE FindFrom(store, token, i + 1)

findIndex(store, token) == FindFrom(store, token, 1)

\* getPrescriptionByToken: trims, then returns the first match or null
getPrescriptionByToken(store, token) ==
  LET i == findIndex(store, Trim(token))
  IN  IF i = 0 THEN NoPrescription ELSE store[i]

\* the lock test of dispensePrescription:
\* lockDates.some(date => date.getTime() > now.getTime())
IsLocked(p, t) == \E d \in p.lockDates : d > t

\* isLockedToday of the pharmacist screen: a lock date on today's calendar
\* day (both dates cut to midnight)
isLockedToday(p, t) == \E d \in p.lockDates : DayOf(d) = DayOf(t)

\* isDispensable of the pharmacist screen: active, not locked today, not
\* past doseValidity
isDispensable(p, t) ==
  /\ p.status = "active"
  /\ ~isLockedToday(p, t)
  /\ ~(t > p.doseValidity)

\* the early returns without the "already dispensed" test
EligibilityWithoutDispensedTest(store, token, t) ==
  LET i == FindFrom(store, token, 1)
  IN  IF i = 0 THEN "Prescription not found"
      ELSE IF IsLocked(store[i], t) THEN "Prescription locked"
      ELSE "eligible"

\* the early returns without the lock-date test
EligibilityWithoutLockTest(store, token, t) ==
  LET i == FindFrom(store, token, 1)
  IN  IF i = 0 THEN "Prescription not found"
      ELSE IF store[i].status = "dispensed" THEN "Already dispensed"
      ELSE "eligible"

\* the early returns of dispensePrescription, in the order of the code;
\* "eligible" when none of them fires
Eligibility(store, token, t) ==
  LET i == findIndex(store, token)
  IN  IF i = 0 THEN "Prescription not found"
      ELSE IF store[i].status = "dispensed" THEN "Already dispensed"
      ELSE IF IsLocked(store[i], t) THEN "Prescription locked"
      ELSE "eligible"

\* the ledger is never consulted
NeedsLedgerNever(p) == FALSE

\* the ledger is consulted only for a prescription that has a
\* blockchainTxHash: (web3State.isConnected || true) && blockchainTxHash
NeedsLedger(p) == p.blockchainTxHash # NoTx

\* the call goes on whatever the recorder answered
BlockchainVerifiedAnyway(success) == TRUE

\* "if (!success) reject": the call goes on only with the recorder's success
BlockchainVerified(success) == success

\* "Update prescription": the copy taken before the await, transitioned
ApplyDispense(p, t) ==
  [p EXCEPT !.status = "dispensed",
            !.dispensedDates = Append(p.dispensedDates, t),
            !.nextValidDose = <<>>]

\* "Update the array": slice(0,index) ++ [prescription] ++ slice(index+1)
ReplaceAt(store, i, p) == [store EXCEPT ![i] = p]

\* the inventory loop flipping available only below zero
DecrementMedicineBelowZero(m, q) ==
  LET nq == m.quantity - q
  IN  [quantity |-> nq,
       available |-> IF nq < 0 THEN FALSE ELSE m.available]

\* one iteration of the inventory loop
DecrementMedicine(m, q) ==
  LET nq == m.quantity - q
  IN  [quantity |-> nq,
       available |-> IF nq <= 0 THEN FALSE ELSE m.available]

\* the inventory loop stopping after the prescription's first line
UpdateInventoryFirstLineOnly(meds, lines) ==
  IF lines = <<>> THEN meds
  ELSE LET l == Head(lines)
       IN  IF l.medicine \in DOMAIN meds
           THEN [meds EXCEPT ![l.medicine] =
                               DecrementMedicine(meds[l.medicine], l.quantity)]
           ELSE meds

\* "Update medicine inventory": forEach over the prescription's lines
RECURSIVE UpdateInventory(_, _)
UpdateInventory(meds, lines) ==
  IF lines = <<>> THEN meds
  ELSE LET l == Head(lines)
           next == IF l.medicine \in DOMAIN meds
                   THEN [meds EXCEPT ![l.medicine] =
                                       DecrementMedicine(meds[l.medicine], l.quantity)]
                   ELSE meds
       IN  UpdateInventory(next, Tail(lines))

\* the new prescription with a status derived from its lock dates
NewPrescriptionStatusFromLocks(store, req, uiToken, t) ==
  [id |-> Len(store) + 1, tokenId |-> uiToken, patientId |-> "2",
   medicines |-> req.medicines, doseValidity |-> req.doseValidity,
   lockDates |-> req.lockDates,
   status |-> IF req.lockDates = {} THEN "active" ELSE "locked",
   nextValidDose |-> <<t>>, dispensedDates |-> <<>>,
   blockchainTxHash |-> NoTx, ethereumAddress |-> NoAddress]

\* the object createPrescription builds before it calls the ledger
NewPrescription(store, req, uiToken, t) ==
  [id |-> Len(store) + 1, tokenId |-> uiToken, patientId |-> "2",
   medicines |-> req.medicines, doseValidity |-> req.doseValidity,
   lockDates |-> req.lockDates, status |-> "active",
   nextValidDose |-> <<t>>, dispensedDates |-> <<>>,
   blockchainTxHash |-> NoTx, ethereumAddress |-> NoAddress]

\* the merge without its "if (blockchainTxHash)"
MergeLedgerResultUnguarded(p, tx, address) ==
  [p EXCEPT !.blockchainTxHash = tx, !.ethereumAddress = address]

\* "if (blockchainTxHash) { ... }": merge of the ledger result
MergeLedgerResult(p, tx, address) ==
  IF tx # NoTx
  THEN [p EXCEPT !.blockchainTxHash = tx, !.ethereumAddress = address]
  ELSE p

(* --------------------------- call records ----------------------------- *)

\* a call waiting for the ledger recorder: its arguments and the locals it
\* captured before the await.  rivalOk records that another dispense call
\* on the same token, pending together with this one, has succeeded
PendingCall(op, token, index, snap, bcToken) ==
  [op |-> op, token |-> token, index |-> index, snap |-> snap,
   bcToken |-> bcToken, conn |-> web3State.isConnected,
   address |-> web3State.address, rivalOk |-> FALSE]

\* what the last completed call handed to its caller: the resolved
\* prescription or the rejection message, and the ledger recorder's answer
\* ("none" when the call did not consult it)
Returned(op, token, result, p, ledger, rivalOk) ==
  [op |-> op, token |-> token, result |-> result, prescription |-> p,
   ledger |-> ledger, rivalOk |-> rivalOk]

\* the pending calls without call c
RemoveAt(cs, c) ==
  [i \in 1..(Len(cs) - 1) |-> IF i < c THEN cs[i] ELSE cs[i + 1]]

\* the pending calls after dispense call c succeeded: c leaves, and every
\* other pending dispense call on its token has a successful rival
AfterCommit(cs, c) ==
  RemoveAt([i \in 1..Len(cs) |->
              IF i # c /\ cs[i].op = "dispense" /\ cs[i].token = cs[c].token
              THEN [cs[i] EXCEPT !.rivalOk = TRUE]
              ELSE cs[i]], c)

(* ------------------------------ actions ------------------------------- *)

Init ==
  /\ mockPrescriptions = SeedPrescriptions
  /\ medicines = InitialMedicines
  /\ tokenMap = [t \in MintTokens \cup DispenseTokens |-> 0]
  /\ web3State = [isConnected |-> FALSE, address |-> NoAddress]
  /\ now = today
  /\ calls = <<>>
  /\ returned = Returned("none", "", "none", NoPrescription, "none", FALSE)
  /\ started = 0
  /\ ledgerTokens = 0

\* time passes
Tick ==
  /\ now < MaxTime
  /\ now' = now + 1
  /\ UNCHANGED <<mockPrescriptions, medicines, tokenMap, web3State, calls,
                 returned, started, ledgerTokens>>

\* connectWallet succeeded
ConnectWallet ==
  /\ ~web3State.isConnected
  /\ web3State' = [isConnected |-> TRUE, address |-> WalletAddress]
  /\ UNCHANGED <<mockPrescriptions, medicines, tokenMap, now, calls,
                 returned, started, ledgerTokens>>

\* disconnectWallet
DisconnectWallet ==
  /\ web3State.isConnected
  /\ web3State' = [isConnected |-> FALSE, address |-> NoAddress]
  /\ UNCHANGED <<mockPrescriptions, medicines, tokenMap, now, calls,
                 returned, started, ledgerTokens>>

\* onSubmit's test of the medicine list ("Please add at least one medicine")
onSubmitRejectsNothing(lines) == FALSE

\* onSubmit: "if (selectedMedicines.length === 0) { toast.error(...); return }"
onSubmitRejects(lines) == Len(lines) = 0

\* onSubmit returning at its test of the medicine list: the service is not
\* called, the form shows the message
SubmitRejected(req) ==
  /\ onSubmitRejects(req.medicines)
  /\ started < MaxCalls
  /\ started' = started + 1
  /\ returned' = Returned("submit", "", "Please add at least one medicine",
                          NoPrescription, "none", FALSE)
  /\ UNCHANGED <<mockPrescriptions, medicines, tokenMap, web3State, now,
                 calls, ledgerTokens>>

\* onSubmit past its test, then createPrescription up to
\* "await Web3Service.createPrescription(...)": mints both tokens, stores the
\* mapping, builds the prescription object.  Without a first medicine line
\* "primaryMedicine.medicine" throws inside the try before the ledger call is
\* made, the catch logs it and the prescription is appended in the same turn.
\* (ledgerTokens counts the ledger tokens minted so far, one per creation)
CreateStart(req, uiToken) ==
  /\ ~onSubmitRejects(req.medicines)
  /\ started < MaxCalls
  /\ ledgerTokens < MaxCreates
  /\ started' = started + 1
  /\ LET blockchainToken == ledgerTokens + 1
         newPrescription ==
           NewPrescription(mockPrescriptions, req, uiToken, now)
     IN  /\ ledgerTokens' = blockchainToken
         /\ tokenMap' = storeTokenMapping(tokenMap, uiToken, blockchainToken)
         /\ IF req.medicines = <<>>
            THEN /\ mockPrescriptions' =
                      Append(mockPrescriptions, newPrescription)
                 /\ returned' = Returned("create", uiToken, "ok",
                                         newPrescription, NoTx, FALSE)
                 /\ UNCHANGED calls
            ELSE /\ calls' = Append(calls,
                      PendingCall("create", uiToken, 0, newPrescription,
                                  blockchainToken))
                 /\ UNCHANGED <<mockPrescriptions, returned>>
  /\ UNCHANGED <<medicines, web3State, now>>

\* createPrescription after the ledger answered: merge, append, return
CreateFinish(c, d, b) ==
  /\ calls[c].op = "create"
  /\ LET tx == recordCreation(calls[c].conn, d, b)
         p == MergeLedgerResult(calls[c].snap, tx, calls[c].address)
     IN  /\ mockPrescriptions' = Append(mockPrescriptions, p)
         /\ returned' = Returned("create", calls[c].token, "ok", p, tx, FALSE)
  /\ calls' = RemoveAt(calls, c)
  /\ UNCHANGED <<medicines, tokenMap, web3State, now, started, ledgerTokens>>

\* dispensePrescription rejected by one of its early returns
DispenseReject(token) ==
  /\ started < MaxCalls
  /\ started' = started + 1
  /\ Eligibility(mockPrescriptions, token, now) # "eligible"
  /\ returned' = Returned("dispense", token,
                          Eligibility(mockPrescriptions, token, now),
                          NoPrescription, "none", FALSE)
  /\ UNCHANGED <<mockPrescriptions, medicines, tokenMap, web3State, now,
                 calls, ledgerTokens>>

\* dispensePrescription of a prescription without blockchainTxHash: no
\* await is reached, the whole call is one step
DispenseLocal(token) ==
  /\ started < MaxCalls
  /\ started' = started + 1
  /\ Eligibility(mockPrescriptions, token, now) = "eligible"
  /\ LET index == findIndex(mockPrescriptions, token)
         p == ApplyDispense(mockPrescriptions[index], now)
     IN  /\ ~NeedsLedger(mockPrescriptions[index])
         /\ mockPrescriptions' = ReplaceAt(mockPrescriptions, index, p)
         /\ medicines' = UpdateInventory(medicines, p.medicines)
         /\ returned' = Returned("dispense", token, "ok", p, "none", FALSE)
  /\ UNCHANGED <<tokenMap, web3State, now, calls, ledgerTokens>>

\* dispensePrescription up to "await Web3Service.dispensePrescription(...)"
DispenseStart(token) ==
  /\ started < MaxCalls
  /\ started' = started + 1
  /\ Eligibility(mockPrescriptions, token, now) = "eligible"
  /\ LET index == findIndex(mockPrescriptions, token)
         mapped == getBlockchainToken(tokenMap, token)
     IN  /\ NeedsLedger(mockPrescriptions[index])
         /\ ledgerTokens' = IF mapped = 0 THEN ledgerTokens + 1
                            ELSE ledgerTokens
         /\ calls' = Append(calls,
              PendingCall("dispense", token, index, mockPrescriptions[index],
                          IF mapped = 0 THEN ledgerTokens + 1 ELSE mapped))
  /\ UNCHANGED <<mockPrescriptions, medicines, tokenMap, web3State, now,
                 returned>>

\* the ledger recorder answered without success: the call is rejected
DispenseAbort(c, d, b) ==
  /\ calls[c].op = "dispense"
  /\ ~BlockchainVerified(recordDispensation(calls[c].conn, d, b))
  /\ returned' = Returned("dispense", calls[c].token,
                          "Blockchain verification failed", NoPrescription,
                          "failure", calls[c].rivalOk)
  /\ calls' = RemoveAt(calls, c)
  /\ UNCHANGED <<mockPrescriptions, medicines, tokenMap, web3State, now,
                 started, ledgerTokens>>

\* the ledger recorder answered success: transition, store, inventory
DispenseCommit(c, d, b) ==
  /\ calls[c].op = "dispense"
  /\ BlockchainVerified(recordDispensation(calls[c].conn, d, b))
  /\ LET p == ApplyDispense(calls[c].snap, now)
     IN  /\ mockPrescriptions' = ReplaceAt(mockPrescriptions, calls[c].index, p)
         /\ medicines' = UpdateInventory(medicines, p.medicines)
         /\ returned' = Returned("dispense", calls[c].token, "ok", p,
                                 "success", calls[c].rivalOk)
  /\ calls' = AfterCommit(calls, c)
  /\ UNCHANGED <<tokenMap, web3State, now, started, ledgerTokens>>

Next ==
  \/ Tick
  \/ ConnectWallet
  \/ DisconnectWallet
  \/ \E req \in Submissions : SubmitRejected(req)
  \/ \E req \in Submissions, uiToken \in MintTokens : CreateStart(req, uiToken)
  \/ \E c \in 1..Len(calls), d \in DirectOutcomes, b \in BackendOutcomes :
       CreateFinish(c, d, b)
  \/ \E token \in DispenseTokens : DispenseReject(token)
  \/ \E token \in DispenseTokens : DispenseLocal(token)
  \/ \E token \in DispenseTokens : DispenseStart(token)
  \/ \E c \in 1..Len(calls), d \in DirectOutcomes, b \in BackendOutcomes :
       DispenseAbort(c, d, b)
  \/ \E c \in 1..Len(calls), d \in DirectOutcomes, b \in BackendOutcomes :
       DispenseCommit(c, d, b)

Spec == Init /\ [][Next]_vars

(* ------------------------------ fairness ------------------------------ *)

\* Time passes whatever the program does.  Nothing else is promised: the
\* steps that complete a pending call need an answer of the contract or of
\* the backend ("await tx.wait()", "await axios.post(...)", neither with a
\* timeout), and no step of the program is driven by the clock.
FairSpec == Spec /\ WF_vars(Tick)

(* ------------------- requests beyond those of Requests ---------------- *)

\* a line that asks for more than the catalog holds (medicine 5 holds 45):
\* handleAddMedicine tests the medicine's available flag, not its stock
OverStockRequest ==
  [medicines |-> <<[medicine |-> 5, quantity |-> 50]>>,
   doseValidity |-> today, lockDates |-> {}]

\* a scanned QR text with trailing whitespace: handleScan only tests that it
\* starts with "RX-" and hands it on untrimmed
ScannedToken == "RX-AAAAAAAA "

\* getPrescriptionViaBackend logs its error and throws it again; it throws
\* when the request fails
getPrescriptionViaBackendThrows(b) == b = "throw"

\* the paths Web3Service.getPrescription tries, in order
getPrescriptionAttempts(conn, d, b) ==
  Attempts(conn, d, getPrescriptionViaBackendThrows(b))

\* what Web3Service.getPrescription returns: the formatted data of the
\* contract or of the backend, null when the backend helper called from the
\* catch throws (the backend answers a repeated request the same way)
getPrescription(conn, d, b) ==
  IF conn /\ d # "throw" THEN "data"
  ELSE IF getPrescriptionViaBackendThrows(b) THEN "null"
  ELSE "data"

\* one call of Web3Service.getPrescription: a read, it changes nothing
LedgerRead(token, d, b) ==
  /\ started < MaxCalls
  /\ started' = started + 1
  /\ returned' = Returned("read", token,
                          getPrescription(web3State.isConnected, d, b),
                          NoPrescription, "none", FALSE)
  /\ UNCHANGED <<mockPrescriptions, medicines, tokenMap, web3State, now,
                 calls, ledgerTokens>>

NextWide ==
  \/ Next
  \/ \E uiToken \in MintTokens : CreateStart(OverStockRequest, uiToken)
  \/ DispenseReject(ScannedToken)
  \/ \E d \in DirectOutcomes, b \in BackendOutcomes :
       LedgerRead("RX-AAAAAAAA", d, b)

SpecWide == Init /\ [][NextWide]_vars

(* ------------------------------ claims -------------------------------- *)

\* the first stored prescription with this token
Stored(token) == mockPrescriptions[findIndex(mockPrescriptions, token)]

\* a dispense call on token runs its synchronous part in this step
DispenseCallOn(token) ==
  DispenseReject(token) \/ DispenseLocal(token) \/ DispenseStart(token)

\* C1: of two dispense calls on one token that were pending together, at
\* most one completes successfully: no call succeeds after a call it
\* overlapped with has succeeded.
C1_OverlappingDispensesExclude ==
  ~(returned.op = "dispense" /\ returned.result = "ok" /\ returned.rivalOk)

\* C2: a dispense call on a token whose prescription is dispensed fails with
\* "Already dispensed" and changes nothing; a dispense call that succeeds
\* without a successful overlapping call appends exactly one date.  So two
\* calls one after the other grow dispensedDates by exactly one.
C2_DispensedIsTerminal ==
  [][ /\ \A token \in DispenseTokens :
           ( /\ started' # started
             /\ findIndex(mockPrescriptions, token) # 0
             /\ Stored(token).status = "dispensed"
             /\ DispenseCallOn(token) )
           => /\ returned'.result = "Already dispensed"
              /\ UNCHANGED <<mockPrescriptions, medicines, calls>>
      /\ \A token \in DispenseTokens :
           ( /\ mockPrescriptions' # mockPrescriptions
             /\ returned'.op = "dispense" /\ returned'.token = token
             /\ returned'.result = "ok" /\ ~returned'.rivalOk )
           => LET i == findIndex(mockPrescriptions, token)
              IN  /\ mockPrescriptions'[i].status = "dispensed"
                  /\ Len(mockPrescriptions'[i].dispensedDates)
                       = Len(mockPrescriptions[i].dispensedDates) + 1
    ]_vars

\* C2 witness: the pre-seeded active prescription was dispensed once (one
\* date appended to its one earlier date) and a second call was rejected
C2_Witness ==
  /\ returned.op = "dispense" /\ returned.token = "RX-ABC12345"
  /\ returned.result = "Already dispensed"
  /\ Len(mockPrescriptions[1].dispensedDates) = 2

\* C3: when the ledger recorder does not report success to a pending
\* dispense call, the call is rejected and the store (status,
\* dispensedDates, nextValidDose) and the catalog stay as they are.
C3_LedgerFailureAborts ==
  [][ Len(calls') < Len(calls) =>
      \A c \in 1..Len(calls), d \in DirectOutcomes, b \in BackendOutcomes :
        ( /\ calls[c].op = "dispense"
          /\ ~recordDispensation(calls[c].conn, d, b)
          /\ DispenseAbort(c, d, b) \/ DispenseCommit(c, d, b) )
        => /\ returned'.result = "Blockchain verification failed"
           /\ UNCHANGED <<mockPrescriptions, medicines>>
    ]_vars

\* C3 witness: a dispense call was rejected on the recorder's failure and
\* its prescription is still active
C3_Witness ==
  /\ returned.op = "dispense" /\ returned.ledger = "failure"
  /\ returned.result = "Blockchain verification failed"
  /\ findIndex(mockPrescriptions, returned.token) # 0
  /\ Stored(returned.token).status = "active"

\* C4: a dispense call on an active prescription with a lock date on
\* today's calendar day fails with "Prescription locked" and changes nothing.
C4_LockedTodayRejects ==
  [][ \A token \in DispenseTokens :
        ( /\ started' # started
          /\ DispenseCallOn(token)
          /\ findIndex(mockPrescriptions, token) # 0
          /\ Stored(token).status = "active"
          /\ isLockedToday(Stored(token), now) )
        => /\ returned'.op = "dispense" /\ returned'.token = token
           /\ returned'.result = "Prescription locked"
           /\ UNCHANGED <<mockPrescriptions, medicines, calls>>
    ]_vars

\* C5: a dispense call on an active prescription whose doseValidity is
\* earlier than now (and that is not locked today) fails with "Expired" and
\* the prescription stays active.
C5_ExpiredRejects ==
  [][ \A token \in DispenseTokens :
        ( /\ started' # started
          /\ DispenseCallOn(token)
          /\ findIndex(mockPrescriptions, token) # 0
          /\ Stored(token).status = "active"
          /\ ~isLockedToday(Stored(token), now)
          /\ now > Stored(token).doseValidity )
        => /\ returned'.op = "dispense" /\ returned'.token = token
           /\ returned'.result = "Expired"
           /\ UNCHANGED <<mockPrescriptions, medicines, calls>>
    ]_vars

\* C6: a dispense call on a prescription that is active, has no lock date
\* on today's calendar day and is not past doseValidity passes the
\* eligibility checks: it is not rejected by an early return.
C6_EligibleIsNotRejected ==
  [][ \A token \in DispenseTokens :
        ( /\ started' # started
          /\ DispenseCallOn(token)
          /\ findIndex(mockPrescriptions, token) # 0
          /\ isDispensable(Stored(token), now) )
        => DispenseLocal(token) \/ DispenseStart(token)
    ]_vars

\* C7 as claimed: every change of a stored prescription to dispensed and
\* every change of the catalog happens in a dispense call whose
\* recordDispensation call returned success.
C7_EveryCommitHasLedgerSuccess ==
  [][ ( \/ medicines' # medicines
        \/ \E i \in 1..Len(mockPrescriptions) :
             /\ mockPrescriptions[i].status = "active"
             /\ mockPrescriptions'[i].status = "dispensed" )
      => /\ returned'.op = "dispense" /\ returned'.result = "ok"
         /\ returned'.ledger = "success"
    ]_vars

\* C7 amended: a prescription that carries a blockchainTxHash is changed in
\* the store, and its lines are taken from the catalog, only by a dispense
\* call on it whose recordDispensation call returned success; every change
\* of the catalog is made by a successful dispense call.
C7_AnchoredCommitHasLedgerSuccess ==
  [][ /\ \A i \in 1..Len(mockPrescriptions) :
           ( /\ mockPrescriptions[i].blockchainTxHash # NoTx
             /\ mockPrescriptions'[i] # mockPrescriptions[i] )
           => /\ returned'.op = "dispense" /\ returned'.result = "ok"
              /\ returned'.ledger = "success"
              /\ findIndex(mockPrescriptions, returned'.token) = i
      /\ medicines' # medicines
           => /\ returned'.op = "dispense" /\ returned'.result = "ok"
              /\ returned'.prescription.status = "dispensed"
              /\ returned'.prescription.blockchainTxHash # NoTx
                   => returned'.ledger = "success"
    ]_vars

\* C7 witness: an anchored prescription was dispensed after the recorder's
\* success and its line was taken from the catalog
C7_Witness ==
  /\ returned.op = "dispense" /\ returned.result = "ok"
  /\ returned.ledger = "success"
  /\ returned.prescription.blockchainTxHash # NoTx
  /\ Stored(returned.token).status = "dispensed"
  /\ medicines # InitialMedicines

\* the direct path or the backend path handed a transaction reference back
ReturnedReference(conn, d, b) ==
  \/ conn /\ d \in {"ok", "status0"}
  \/ (~conn \/ d = "throw") /\ b = "ok"

\* C8: createPrescription always resolves with the prescription it appended
\* to the store, status active; blockchainTxHash is set exactly when a path
\* returned a transaction reference, and without one there is neither
\* blockchainTxHash nor ethereumAddress.
C8_CreateNeverFailsOnLedger ==
  [][ Len(mockPrescriptions') > Len(mockPrescriptions) =>
      \A c \in 1..Len(calls), d \in DirectOutcomes, b \in BackendOutcomes :
        ( /\ calls[c].op = "create"
          /\ returned'.ledger = recordCreation(calls[c].conn, d, b)
          /\ CreateFinish(c, d, b) )
        => /\ returned'.op = "create" /\ returned'.result = "ok"
           /\ returned'.prescription.status = "active"
           /\ Len(mockPrescriptions') = Len(mockPrescriptions) + 1
           /\ mockPrescriptions'[Len(mockPrescriptions')] = returned'.prescription
           /\ (returned'.prescription.blockchainTxHash # NoTx)
                <=> ReturnedReference(calls[c].conn, d, b)
           /\ ~ReturnedReference(calls[c].conn, d, b)
                => /\ returned'.prescription.blockchainTxHash = NoTx
                   /\ returned'.prescription.ethereumAddress = NoAddress
    ]_vars

\* C8 witness: a creation that started with a connected wallet and got no
\* transaction reference is stored active and unanchored
C8_Witness ==
  /\ returned.op = "create" /\ returned.ledger = NoTx
  /\ web3State.isConnected
  /\ mockPrescriptions[Len(mockPrescriptions)] = returned.prescription
  /\ returned.prescription.status = "active"
  /\ returned.prescription.blockchainTxHash = NoTx
  /\ returned.prescription.ethereumAddress = NoAddress

\* C9: when createPrescription returns, a lookup of the returned token
\* yields the returned prescription.
C9_LookupReturnsCreated ==
  [][ Len(mockPrescriptions') > Len(mockPrescriptions) =>
      \A c \in 1..Len(calls), d \in DirectOutcomes, b \in BackendOutcomes :
        ( /\ calls[c].op = "create"
          /\ returned'.ledger = recordCreation(calls[c].conn, d, b)
          /\ CreateFinish(c, d, b) )
        => getPrescriptionByToken(mockPrescriptions',
                                  returned'.prescription.tokenId)
             = returned'.prescription
    ]_vars

\* C10: every medicine of the catalog has available = (quantity > 0).
C10_AvailableIffInStock ==
  \A m \in DOMAIN medicines :
    medicines[m].available = (medicines[m].quantity > 0)

\* C10 witness: a dispense took the whole stock of medicine 5, which is now
\* unavailable
C10_Witness ==
  /\ medicines[5].quantity = 0
  /\ ~medicines[5].available
  /\ returned.op = "dispense" /\ returned.result = "ok"

\* C11: every catalog quantity is non-negative: a dispense of a line that
\* asks for more than the stock leaves the quantity at zero.
C11_StockNeverNegative ==
  \A m \in DOMAIN medicines : medicines[m].quantity >= 0

\* the sum of the quantities of the lines of medicine m
RECURSIVE LineTotal(_, _)
LineTotal(lines, m) ==
  IF lines = <<>> THEN 0
  ELSE (IF Head(lines).medicine = m THEN Head(lines).quantity ELSE 0)
       + LineTotal(Tail(lines), m)

\* this step is a dispense call returning the dispensed prescription
DispenseSucceeds ==
  /\ \/ started' # started /\ Len(calls') = Len(calls)
     \/ Len(calls') < Len(calls)
  /\ returned'.op = "dispense"
  /\ returned'.result = "ok"

\* C12: a successful dispense lowers the quantity of each medicine of the
\* prescription by exactly the quantity of its lines when the stock suffices
\* (keeping the medicine available while stock remains), and changes no
\* medicine the prescription does not reference.
C12_DispenseTakesLineQuantities ==
  [][ DispenseSucceeds =>
      \A m \in DOMAIN medicines :
        LET q == LineTotal(returned'.prescription.medicines, m)
        IN  IF q = 0 THEN medicines'[m] = medicines[m]
            ELSE medicines[m].quantity >= q =>
                   /\ medicines'[m].quantity = medicines[m].quantity - q
                   /\ medicines[m].quantity > q =>
                        medicines'[m].available = medicines[m].available
    ]_vars

\* C12 witness: the one-line prescription of 30 units of medicine 1 was
\* dispensed from a stock of 150, which is now 120 and still available
C12_Witness ==
  /\ returned.op = "dispense" /\ returned.result = "ok"
  /\ returned.prescription.medicines = <<[medicine |-> 1, quantity |-> 30]>>
  /\ medicines[1].quantity = 120
  /\ medicines[1].available
  /\ \A m \in DOMAIN medicines \ {1} : medicines[m] = InitialMedicines[m]

\* C13: the stored status of a prescription changes only from active to
\* dispensed: a dispensed prescription stays dispensed, prescriptions are
\* never removed, and no step stores the status locked or expired.
C13_StatusOnlyActiveToDispensed ==
  [][ /\ Len(mockPrescriptions') >= Len(mockPrescriptions)
      /\ \A i \in 1..Len(mockPrescriptions') :
           /\ mockPrescriptions'[i].status \in {"active", "dispensed"}
           /\ i <= Len(mockPrescriptions) =>
                ( mockPrescriptions[i].status = "dispensed" =>
                    mockPrescriptions'[i].status = "dispensed" )
    ]_vars

\* C13 witness: the seed prescription that started active is dispensed, a
\* later dispense call on it was turned away, and a created prescription
\* with lock dates is stored as active
C13_Witness ==
  /\ mockPrescriptions[1].status = "dispensed"
  /\ returned.op = "dispense"
  /\ returned.token = "RX-ABC12345"
  /\ returned.result = "Already dispensed"
  /\ \E i \in 1..Len(mockPrescriptions) :
       /\ mockPrescriptions[i].lockDates # {}
       /\ mockPrescriptions[i].status = "active"

\* s is a prefix of t
IsPrefix(s, t) ==
  /\ Len(s) <= Len(t)
  /\ \A k \in 1..Len(s) : s[k] = t[k]

\* C14: dispensedDates is append-only, overlapping dispense calls on the
\* same prescription included: every step leaves the previously stored
\* sequence of each prescription as a prefix of the new one.
C14_DispensedDatesAppendOnly ==
  [][ \A i \in 1..Len(mockPrescriptions) :
        /\ i <= Len(mockPrescriptions')
        /\ IsPrefix(mockPrescriptions[i].dispensedDates,
                    mockPrescriptions'[i].dispensedDates)
    ]_vars

\* C15: no two stored prescriptions carry the same UI token.
C15_TokensUnique ==
  \A i, j \in 1..Len(mockPrescriptions) :
    i # j => mockPrescriptions[i].tokenId # mockPrescriptions[j].tokenId

\* C16: the token mapping is one-to-one and write-once, and a stored
\* prescription keeps its tokenId: an entry, once written, is never changed,
\* and no two UI tokens map to the same ledger token.
C16_TokenMappingWriteOnce ==
  [][ /\ \A t \in DOMAIN tokenMap :
           tokenMap[t] # 0 => tokenMap'[t] = tokenMap[t]
      /\ \A t, u \in DOMAIN tokenMap :
           (t # u /\ tokenMap'[t] # 0) => tokenMap'[t] # tokenMap'[u]
      /\ \A i \in 1..Len(mockPrescriptions) :
           /\ i <= Len(mockPrescriptions')
           /\ mockPrescriptions'[i].tokenId = mockPrescriptions[i].tokenId
    ]_vars

AttemptsOf(c, d, b) ==
  IF calls[c].op = "create" THEN createAttempts(calls[c].conn, d, b)
  ELSE dispenseAttempts(calls[c].conn, d, b)

\* the recorder reports success for pending call c under the outcomes (d, b)
SuccessOf(c, d, b) ==
  IF calls[c].op = "create" THEN recordCreation(calls[c].conn, d, b) # NoTx
  ELSE recordDispensation(calls[c].conn, d, b)

\* C18: the recorder goes direct-then-backend: for every pending call and
\* every answer, the backend is attempted exactly when the direct path did
\* not succeed (no signer, a throw, or a receipt without success status),
\* and the call reports success exactly when one of the two succeeded.
C18_DirectThenBackend ==
  \A c \in 1..Len(calls), d \in DirectOutcomes, b \in BackendOutcomes :
    LET att == AttemptsOf(c, d, b)
        directOk == calls[c].conn /\ d = "ok"
        backendTried == \E k \in 1..Len(att) : att[k] = "backend"
        backendOk == backendTried /\ b = "ok"
    IN  /\ backendTried <=> ~directOk
        /\ SuccessOf(c, d, b) <=> (directOk \/ backendOk)

\* C19: within one recorder call the direct path is attempted at most once
\* and the backend at most once, the direct path first; nothing is retried.
C19_AtMostOneAttemptPerPath ==
  \A c \in 1..Len(calls), d \in DirectOutcomes, b \in BackendOutcomes :
    AttemptsOf(c, d, b) \in
      {<<"direct">>, <<"backend">>, <<"direct", "backend">>}

\* C19 witness: a dispense call and a create call wait for the recorder, one
\* started with the wallet connected and one without, so that both the
\* direct and the backend entry are taken
C19_Witness ==
  /\ \E c \in 1..Len(calls) : calls[c].op = "dispense" /\ calls[c].conn
  /\ \E c \in 1..Len(calls) : calls[c].op = "create" /\ ~calls[c].conn
  /\ returned.op = "create" /\ returned.ledger = TxHash

\* C20: every create and every dispense call eventually completes, even when
\* the ledger or the backend never answers: no call stays pending forever.
C20_EveryCallCompletes == (calls # <<>>) ~> (calls = <<>>)

\* the dispensation timestamps prescription i has gained since its creation
\* (the seed prescriptions start with the ones of SeedPrescriptions)
DispensedSinceCreation(i) ==
  Len(mockPrescriptions[i].dispensedDates)
    - (IF i <= Len(SeedPrescriptions)
       THEN Len(SeedPrescriptions[i].dispensedDates) ELSE 0)

\* the units of medicine m the stored dispensations account for
RECURSIVE AccountedFrom(_, _)
AccountedFrom(m, i) ==
  IF i > Len(mockPrescriptions) THEN 0
  ELSE LineTotal(mockPrescriptions[i].medicines, m) * DispensedSinceCreation(i)
       + AccountedFrom(m, i + 1)

\* C21: the inventory adjustment is made once per stored dispensation: the
\* catalog has lost, for every medicine, exactly the line quantities of each
\* prescription times the number of dispensation timestamps the prescription
\* has gained since its creation (at most one, over any interleaving).
C21_OneDecrementPerDispensation ==
  /\ \A i \in 1..Len(mockPrescriptions) : DispensedSinceCreation(i) <= 1
  /\ \A m \in DOMAIN medicines :
       InitialMedicines[m].quantity - medicines[m].quantity
         = AccountedFrom(m, 1)

\* C22: the catalog is changed only by a successful dispense: a step that
\* changes a quantity or an availability flag is a dispense call returning
\* the dispensed prescription, not one turned away as not found, already
\* dispensed or locked (no lock date of it is ahead) nor one the ledger
\* refused; create and every failing dispense leave the catalog as it was.
C22_CatalogChangedOnlyByDispense ==
  [][ medicines' # medicines =>
        /\ DispenseSucceeds
        /\ returned'.ledger # "failure"
        /\ returned'.prescription.status = "dispensed"
        /\ \A d \in returned'.prescription.lockDates : ~(d > now)
        /\ \E i \in 1..Len(mockPrescriptions') :
             mockPrescriptions'[i] = returned'.prescription
    ]_vars

\* C22 witness: a creation was stored and a dispense of a locked
\* prescription was turned away, and the catalog is still the initial one
C22_Witness ==
  /\ returned.op = "dispense"
  /\ returned.result = "Prescription locked"
  /\ Len(mockPrescriptions) > Len(SeedPrescriptions)
  /\ medicines = InitialMedicines

\* C23: the ledger token a dispense call submits is the one create minted
\* for the prescription being dispensed, never one minted for another
\* prescription: a dispense call waiting for the recorder carries neither
\* the token of a creation that is still waiting to store its prescription
\* nor the token of a dispense call on another stored prescription.
C23_DispenseSubmitsMintedToken ==
  \A c, e \in 1..Len(calls) :
    (c # e /\ calls[c].op = "dispense") =>
      /\ calls[e].op = "create" => calls[e].bcToken # calls[c].bcToken
      /\ (calls[e].op = "dispense" /\ calls[e].index # calls[c].index)
           => calls[e].bcToken # calls[c].bcToken

\* C24: recordDispensation reports success only when the ledger agreed: for
\* every dispense call waiting for the recorder and every answer, when the
\* backend path is taken the call succeeds only on a backend response whose
\* status reports success, as the backend creation path accepts only 'ok'.
C24_BackendErrorStatusIsFailure ==
  \A c \in 1..Len(calls), d \in DirectOutcomes, b \in BackendOutcomes :
    ( /\ calls[c].op = "dispense"
      /\ \E k \in 1..Len(dispenseAttempts(calls[c].conn, d, b)) :
           dispenseAttempts(calls[c].conn, d, b)[k] = "backend"
      /\ recordDispensation(calls[c].conn, d, b) )
    => /\ b = "ok"
       /\ createPrescriptionViaBackend(b) # NoTx

\* the dispense call on token made in this step is turned away with reason
RejectedWith(token, reason) ==
  /\ DispenseReject(token)
  /\ returned'.op = "dispense" /\ returned'.token = token
  /\ returned'.result = reason

\* C25: a dispense call on a stored prescription reports one failure reason
\* by a fixed precedence: "Already dispensed" when the status is dispensed,
\* whatever the lock dates and the deadline; otherwise "Prescription locked"
\* when today is a lock date, also past doseValidity; otherwise "Expired"
\* when now is past doseValidity.
C25_FailurePrecedence ==
  [][ \A token \in DispenseTokens :
        ( /\ started' # started
          /\ DispenseCallOn(token)
          /\ findIndex(mockPrescriptions, token) # 0 )
        => IF Stored(token).status = "dispensed"
           THEN RejectedWith(token, "Already dispensed")
           ELSE IF isLockedToday(Stored(token), now)
           THEN RejectedWith(token, "Prescription locked")
           ELSE now > Stored(token).doseValidity
                  => RejectedWith(token, "Expired")
    ]_vars

\* C26: while a creation waits for its ledger commit the new prescription is
\* already in the store, with status active, as createPrescription built it.
C26_StoredBeforeLedgerCommit ==
  \A c \in 1..Len(calls) :
    calls[c].op = "create" =>
      \E i \in 1..Len(mockPrescriptions) :
        /\ mockPrescriptions[i] = calls[c].snap
        /\ mockPrescriptions[i].status = "active"

\* the number of backend calls among the paths tried
RECURSIVE BackendCalls(_)
BackendCalls(att) ==
  IF att = <<>> THEN 0
  ELSE (IF Head(att) = "backend" THEN 1 ELSE 0) + BackendCalls(Tail(att))

\* C27: one ledger read calls the backend at most once, for every
\* connection state and every failure.
C27_ReadCallsBackendOnce ==
  [][ \A d \in DirectOutcomes, b \in BackendOutcomes :
        LedgerRead("RX-AAAAAAAA", d, b) =>
          BackendCalls(getPrescriptionAttempts(web3State.isConnected, d, b))
            <= 1
    ]_vars

\* C28: lookup and dispense resolve a token string to the same prescription:
\* a dispense call is turned away as not found exactly when the lookup of
\* the same string returns no prescription, whitespace around a stored token
\* included.
C28_LookupAndDispenseAgree ==
  [][ \A token \in DispenseTokens \cup {ScannedToken} :
        ( started' # started /\ DispenseCallOn(token) )
        => ( RejectedWith(token, "Prescription not found")
             <=> getPrescriptionByToken(mockPrescriptions, token)
                   = NoPrescription )
    ]_vars

\* C29: every stored prescription has its own id, also when the creations
\* that stored them overlapped.
C29_IdsUnique ==
  \A i, j \in 1..Len(mockPrescriptions) :
    i # j => mockPrescriptions[i].id # mockPrescriptions[j].id

\* C30: the pharmacist screen and the service agree on eligibility: when
\* isDispensable holds of a stored prescription, a dispense call on it is not
\* turned away as already dispensed or locked; when it does not hold, the
\* dispense call fails (it does not run to its successful end in the step).
C30_ScreenAndServiceAgree ==
  [][ \A token \in DispenseTokens :
        ( /\ started' # started
          /\ DispenseCallOn(token)
          /\ findIndex(mockPrescriptions, token) # 0 )
        => IF isDispensable(Stored(token), now)
           THEN /\ ~RejectedWith(token, "Already dispensed")
                /\ ~RejectedWith(token, "Prescription locked")
           ELSE ~DispenseLocal(token)
    ]_vars

====
